---- MODULE Spec2Model ----
(***************************************************************************)
(* A model of the generated OpenAPI client and server bindings of          *)
(* oapi-codegen: the response parsers (Parse*Response) of the petstore     *)
(* client and of the schemas test client, the Client request methods, the  *)
(* request builders and the echo server wrappers.                          *)
(*                                                                         *)
(* Strings whose characters matter (content types, parameter values, URL   *)
(* fragments) are sequences of one-character strings.  A Go pointer is a   *)
(* sequence of length at most one: <<>> is nil, <<v>> points to v.  A Go   *)
(* error is a string, "nil" being the nil error.                           *)
(***************************************************************************)
EXTENDS Integers, Sequences, FiniteSets, TLC

VARIABLES rsp, parse, rules, disp, srv, bld, cli, conc, nc

vars == <<rsp, parse, rules, disp, srv, bld, cli, conc, nc>>

NIL == <<>>
NoErr == "nil"

Ptr(v) == <<v>>

(***************************************************************************)
(* Bounds of the model.                                                    *)
(***************************************************************************)
\* how many times a parser is invoked on one response
MaxCalls == 2
\* how long a parameter value or a path fragment is, in characters
MaxLen == 3
\* how many values a query key has
MaxValues == 2
\* how many tags a FindPets request filters by
MaxTags == 2
\* how many options NewClient is given
MaxOpts == 2

(***************************************************************************)
(* Content-Type values (the value of the header, "" when it is absent).    *)
(***************************************************************************)
CTJson == <<"a","p","p","l","i","c","a","t","i","o","n","/","j","s","o","n">>
CTJsonCharset == <<"a","p","p","l","i","c","a","t","i","o","n","/","j","s","o","n",";"," ","c","h","a","r","s","e","t","=","u","t","f","-","8">>
CTUpper == <<"a","p","p","l","i","c","a","t","i","o","n","/","J","S","O","N">>
CTMixed == <<"A","p","p","l","i","c","a","t","i","o","n","/","J","s","o","n",";"," ","c","h","a","r","s","e","t","=","u","t","f","-","8">>
CTText == <<"t","e","x","t","/","p","l","a","i","n">>
CTEmpty == <<>>

ContentTypes == {CTJson, CTJsonCharset, CTUpper, CTMixed, CTText, CTEmpty}

\* the matcher text of the generated JSON rules
JsonMatcher == <<"j","s","o","n">>

\* Go's strings.Contains: a case-sensitive substring test
Contains(s, substr) ==
    \E i \in 1..(Len(s) - Len(substr) + 1) :
        SubSeq(s, i, i + Len(substr) - 1) = substr

\* Go's strings.ToLower on the letters the content types use
LowerChar(c) ==
    CASE c = "A" -> "a"
      [] c = "J" -> "j"
      [] c = "S" -> "s"
      [] c = "O" -> "o"
      [] c = "N" -> "n"
      [] OTHER -> c

ToLower(s) == [i \in 1..Len(s) |-> LowerChar(s[i])]

(***************************************************************************)
(* The HTTP response handed to a parser.  Header holds the values of the   *)
(* Content-Type key (none when the header is absent).  Body is the         *)
(* io.ReadCloser: its bytes, how many were read already, whether it was    *)
(* closed and how often, whether the transport fails while reading, and    *)
(* its kind: "net" is the body of a response of net/http's transport       *)
(* (reading it after Close is an error), "nop" an in-memory reader behind  *)
(* ioutil.NopCloser (reading it at its end yields no bytes and no error).  *)
(***************************************************************************)
StatusCodes == {200, 201, 404}

\* JSON documents, as byte chunks: an object chunk stands for the text of
\* one JSON object
ObjTokens == {"pet1", "pet2", "err404"}

Bodies ==
    { <<>>,
      <<"null">>,
      <<"pet1">>,
      <<"err404">>,
      <<"[", "]">>,
      <<"[", "pet1", ",", "pet2", "]">>,
      <<"[", "pet1">> }

BodyKinds == {"net", "nop"}

Headers == { [ContentType |-> <<>>] } \cup
           { [ContentType |-> <<ct>>] : ct \in ContentTypes }

\* http.Header.Get: the first value of the key, "" when there is none
HeaderGet(h) == IF Len(h.ContentType) = 0 THEN <<>> ELSE h.ContentType[1]

Responses ==
    [ StatusCode : StatusCodes,
      Header     : Headers,
      Body       : [ data   : Bodies,
                     pos    : {0},
                     closed : {FALSE},
                     closes : {0},
                     kind   : BodyKinds,
                     broken : BOOLEAN ] ]

\* ReadAll as it would be if it left the stream where it was
ReadAllNoAdvance(body) ==
    IF body.closed /\ body.kind = "net"
    THEN [bytes |-> <<>>, err |-> "read on closed response body", body |-> body]
    ELSE IF body.broken /\ body.pos < Len(body.data)
    THEN [bytes |-> <<>>, err |-> "unexpected EOF", body |-> body]
    ELSE [bytes |-> SubSeq(body.data, body.pos + 1, Len(body.data)),
          err   |-> NoErr,
          body  |-> body]

\* ioutil.ReadAll(rsp.Body): the bytes not read yet, and the body after it
ReadAll(body) ==
    IF body.closed /\ body.kind = "net"
    THEN [bytes |-> <<>>, err |-> "read on closed response body", body |-> body]
    ELSE IF body.broken /\ body.pos < Len(body.data)
    THEN [bytes |-> <<>>, err |-> "unexpected EOF", body |-> body]
    ELSE [bytes |-> SubSeq(body.data, body.pos + 1, Len(body.data)),
          err   |-> NoErr,
          body  |-> [body EXCEPT !.pos = Len(body.data)]]

\* a Close that leaves the stream open
CloseLeavingOpen(body) == body

\* rsp.Body.Close()
Close(body) == [body EXCEPT !.closed = TRUE, !.closes = body.closes + 1]

(***************************************************************************)
(* encoding/json, on the documents above.                                  *)
(***************************************************************************)
\* the elements between the brackets of an array: objects separated by commas
IsElems(m) ==
    \/ m = <<>>
    \/ /\ Len(m) % 2 = 1
       /\ \A i \in 1..Len(m) :
              IF i % 2 = 1 THEN m[i] \in ObjTokens ELSE m[i] = ","

Elems(m) == [i \in 1..((Len(m) + 1) \div 2) |-> m[2 * i - 1]]

JSONKind(b) ==
    IF b = <<>> THEN "eof"
    ELSE IF b = <<"null">> THEN "null"
    ELSE IF Len(b) = 1 /\ b[1] \in ObjTokens THEN "object"
    ELSE IF /\ Len(b) >= 2
            /\ b[1] = "["
            /\ b[Len(b)] = "]"
            /\ IsElems(SubSeq(b, 2, Len(b) - 1)) THEN "array"
    ELSE "syntax"

\* an object decoded into a Pet: the fields it has, the zero value for the rest
DecodePet(tok) ==
    CASE tok = "pet1" -> [Id |-> 1, Name |-> "Spot", Tag |-> Ptr("TagOfSpot")]
      [] tok = "pet2" -> [Id |-> 2, Name |-> "Fido", Tag |-> Ptr("TagOfFido")]
      [] OTHER        -> [Id |-> 0, Name |-> "", Tag |-> NIL]

\* an object decoded into an Error
DecodeError(tok) ==
    CASE tok = "err404" -> [Code |-> 404, Message |-> "not found"]
      [] OTHER          -> [Code |-> 0, Message |-> ""]

\* the target a rule allocates before decoding: &[]Pet{}, &Pet{}, &Error{}
ZeroValue(shape) ==
    CASE shape = "PetList" -> [shape |-> shape, items |-> <<>>]
      [] shape = "Pet"     -> [shape |-> shape, items |-> <<DecodePet("")>>]
      [] OTHER             -> [shape |-> shape, items |-> <<DecodeError("")>>]

\* json.Unmarshal(bytes, target of the shape)
Unmarshal(bytes, shape) ==
    LET kind == JSONKind(bytes)
        zero == ZeroValue(shape)
    IN  CASE kind = "eof" ->
               [err |-> "unexpected end of JSON input", value |-> zero]
          [] kind = "syntax" ->
               [err |-> "invalid JSON syntax", value |-> zero]
          [] kind = "null" ->
               [err |-> NoErr, value |-> zero]
          [] kind = "object" /\ shape = "PetList" ->
               [err |-> "cannot unmarshal object into Go value of type []Pet",
                value |-> zero]
          [] kind = "object" /\ shape = "Pet" ->
               [err |-> NoErr,
                value |-> [shape |-> shape, items |-> <<DecodePet(bytes[1])>>]]
          [] kind = "object" ->
               [err |-> NoErr,
                value |-> [shape |-> shape, items |-> <<DecodeError(bytes[1])>>]]
          [] kind = "array" /\ shape = "PetList" ->
               [err |-> NoErr,
                value |-> [shape |-> shape,
                           items |-> LET e == Elems(SubSeq(bytes, 2, Len(bytes) - 1))
                                     IN  [i \in 1..Len(e) |-> DecodePet(e[i])]]]
          [] OTHER ->
               [err |-> "cannot unmarshal array into Go value of struct type",
                value |-> zero]

(***************************************************************************)
(* The response parsers.  Each is ReadAll, a deferred Close, the result    *)
(* struct with Body and HTTPResponse, and a switch whose cases are the     *)
(* parser's rules in the order the generator emitted them.                 *)
(***************************************************************************)
PetstoreParsers == {"ParseFindPetsResponse", "ParseAddPetResponse",
                    "ParseDeletePetResponse", "ParseFindPetByIdResponse"}

SchemasParsers == {"ParseIssue30Response", "ParseIssue41Response",
                   "ParseIssue9Response"}

Parsers == PetstoreParsers \cup SchemasParsers

\* the parsers with an exact-200 JSON rule and a default JSON rule
TwoRuleParsers == {"ParseFindPetsResponse", "ParseAddPetResponse",
                   "ParseFindPetByIdResponse"}

ExactRule(code, shape) ==
    [exact |-> TRUE, code |-> code, ct |-> JsonMatcher,
     field |-> "JSON200", shape |-> shape]

DefaultRule ==
    [exact |-> FALSE, code |-> 0, ct |-> JsonMatcher,
     field |-> "JSONDefault", shape |-> "Error"]

\* the cases of each parser's switch, in source order
Rules(fn) ==
    CASE fn = "ParseFindPetsResponse"    -> <<ExactRule(200, "PetList"), DefaultRule>>
      [] fn = "ParseAddPetResponse"      -> <<ExactRule(200, "Pet"), DefaultRule>>
      [] fn = "ParseFindPetByIdResponse" -> <<ExactRule(200, "Pet"), DefaultRule>>
      [] fn = "ParseDeletePetResponse"   -> <<DefaultRule>>
      [] OTHER                           -> <<>>

\* the typed payload fields of each parser's result struct
Fields(fn) ==
    CASE fn \in TwoRuleParsers          -> {"JSON200", "JSONDefault"}
      [] fn = "ParseDeletePetResponse"  -> {"JSONDefault"}
      [] OTHER                          -> {}

\* a case that tests the content type alone
RuleMatchesAnyStatus(rule, status, ct) == Contains(ct, rule.ct)

\* one case of the switch:
\*   strings.Contains(rsp.Header.Get("Content-Type"), "json") [&& rsp.StatusCode == 200]
RuleMatches(rule, status, ct) ==
    /\ Contains(ct, rule.ct)
    /\ (rule.exact => status = rule.code)

\* a switch in which the last true case wins
SwitchLast(cases, status, ct) ==
    LET hits == {i \in 1..Len(cases) : RuleMatches(cases[i], status, ct)}
    IN  IF hits = {} THEN 0
        ELSE CHOOSE i \in hits : \A j \in hits : i >= j

\* Go's switch: the first case whose condition is true, 0 when there is none
Switch(cases, status, ct) ==
    LET hits == {i \in 1..Len(cases) : RuleMatches(cases[i], status, ct)}
    IN  IF hits = {} THEN 0
        ELSE CHOOSE i \in hits : \A j \in hits : i <= j

\* a result struct built without its Body
NewResultNoBody(fn, bytes, r) ==
    [Body         |-> <<>>,
     HTTPResponse |-> Ptr([StatusCode |-> r.StatusCode, Header |-> r.Header]),
     typed        |-> [f \in Fields(fn) |-> NIL]]

\* response := &xResponse{Body: bodyBytes, HTTPResponse: rsp}
NewResult(fn, bytes, r) ==
    [Body         |-> bytes,
     HTTPResponse |-> Ptr([StatusCode |-> r.StatusCode, Header |-> r.Header]),
     typed        |-> [f \in Fields(fn) |-> NIL]]

\* response.JSON200 = &T{} (or JSONDefault), then json.Unmarshal into it
Populate(result, rule, value) ==
    [result EXCEPT !.typed[rule.field] = Ptr(value)]

\* what a parser returns when json.Unmarshal failed: return nil, err
DecodeFailure(local, err) ==
    [local |-> Ptr(local), ret |-> NIL, err |-> err]

\* the switch of a parser and what follows it, over the cases given
DecodeWith(cases, fn, bytes, r) ==
    LET base == NewResult(fn, bytes, r)
        i    == Switch(cases, r.StatusCode, HeaderGet(r.Header))
    IN  IF i = 0
        THEN [local |-> Ptr(base), ret |-> Ptr(base), err |-> NoErr,
              rule |-> 0, log |-> <<"switch">>]
        ELSE LET rule  == cases[i]
                 u     == Unmarshal(bytes, rule.shape)
                 local == Populate(base, rule, u.value)
                 out   == IF u.err # NoErr
                          THEN DecodeFailure(local, u.err)
                          ELSE [local |-> Ptr(local), ret |-> Ptr(local),
                                err |-> NoErr]
             IN  [local |-> out.local, ret |-> out.ret, err |-> out.err,
                  rule |-> i, log |-> <<"switch", "Unmarshal">>]

\* the part of a parser after the body was read
Decode(fn, bytes, r) == DecodeWith(Rules(fn), fn, bytes, r)

\* the body after ioutil.ReadAll and the deferred rsp.Body.Close()
BodyAfter(body) == Close(ReadAll(body).body)

\* Parse*Response(rsp): what it returns and what it leaves of rsp
ParseResponse(fn, r) ==
    LET rd == ReadAll(r.Body)
    IN  IF rd.err # NoErr
        THEN [local |-> NIL, ret |-> NIL, err |-> rd.err, rule |-> 0,
              read |-> rd.bytes, log |-> <<"ReadAll", "Close">>,
              rsp |-> [r EXCEPT !.Body = BodyAfter(r.Body)]]
        ELSE LET d == Decode(fn, rd.bytes, r)
             IN  [local |-> d.local, ret |-> d.ret, err |-> d.err,
                  rule |-> d.rule, read |-> rd.bytes,
                  log |-> <<"ReadAll">> \o d.log \o <<"Close">>,
                  rsp |-> [r EXCEPT !.Body = BodyAfter(r.Body)]]

(***************************************************************************)
(* The parameter style codec (package runtime: StyleParam,                 *)
(* BindStyledParameter, BindQueryParameter), which the generated code      *)
(* calls.  Its source is not part of the files modelled; it is written     *)
(* here from the specification's sections 4.1 and 4.2.                     *)
(***************************************************************************)
\* the characters of parameter values: a letter, the separator of style
\* "simple", the separator of a query string, a space, the character that
\* ends the path of a URL, and the character of the dot segments of a path
Chars == {"a", ",", "&", " ", "?", "."}

\* the strings of at most n characters
RECURSIVE Strings(_)
Strings(n) ==
    IF n = 0 THEN {<<>>}
    ELSE LET shorter == Strings(n - 1)
         IN  shorter \cup {Append(s, c) : s \in {x \in shorter : Len(x) = n - 1},
                                          c \in Chars}

\* the parts of s between the separators sep: one more than there are
\* separators, none for the empty string
RECURSIVE SplitFrom(_, _, _)
SplitFrom(s, sep, cur) ==
    IF s = <<>> THEN <<cur>>
    ELSE IF Head(s) = sep THEN <<cur>> \o SplitFrom(Tail(s), sep, <<>>)
    ELSE SplitFrom(Tail(s), sep, Append(cur, Head(s)))

Split(s, sep) == IF s = <<>> THEN <<>> ELSE SplitFrom(s, sep, <<>>)

\* the parts joined by sep
RECURSIVE Join(_, _)
Join(parts, sep) ==
    IF parts = <<>> THEN <<>>
    ELSE IF Len(parts) = 1 THEN parts[1]
    ELSE parts[1] \o <<sep>> \o Join(Tail(parts), sep)

\* section 4.2, style simple, explode false, target shape scalar (string):
\* the fragment is the value
BindSimpleString(value) == [err |-> NoErr, value |-> value]

\* section 4.2, style simple, explode false, target shape object: the
\* fragment is key,value,key,value,... and the empty fragment is what the
\* object without fields is encoded as
BindSimpleObject(value) ==
    LET parts == Split(value, ",")
        n     == Len(parts) \div 2
        keys  == {parts[2 * i - 1] : i \in 1..n}
    IN  IF value = <<>> THEN [err |-> NoErr, value |-> <<>>]
        ELSE IF Len(parts) % 2 = 1
        THEN [err |-> "MalformedParameter", value |-> <<>>]
        ELSE [err |-> NoErr,
              value |-> [k \in keys |->
                           LET last == CHOOSE i \in 1..n :
                                          /\ parts[2 * i - 1] = k
                                          /\ \A j \in 1..n :
                                                parts[2 * j - 1] = k => j <= i
                           IN  parts[2 * last]]]

\* runtime.BindStyledParameter("simple", false, name, value, &dest)
BindStyledParameter(shape, value) ==
    IF shape = "object" THEN BindSimpleObject(value)
    ELSE BindSimpleString(value)

\* runtime.BindQueryParameter("form", true, required, name, queryParams, &dest)
\* for a scalar (string) target: values are the values of the key, none when
\* the key is absent
BindQueryParameter(required, values) ==
    IF Len(values) = 0
    THEN [err |-> IF required THEN "MissingParameter" ELSE NoErr, value |-> <<>>]
    ELSE IF Len(values) > 1
    THEN [err |-> "MalformedParameter", value |-> <<>>]
    ELSE [err |-> NoErr, value |-> values[1]]

\* a binding of the values of a query key as if the target were a scalar
BindQueryArrayAsScalar(required, values) ==
    IF Len(values) = 0
    THEN [err |-> IF required THEN "MissingParameter" ELSE NoErr, value |-> NIL]
    ELSE [err |-> NoErr, value |-> Ptr(values[1])]

\* runtime.BindQueryParameter("form", true, required, name, queryParams, &dest)
\* for an array target ([]string): each value of the key is an element, a key
\* that appears once gives an array of one element, an absent key leaves a
\* nil pointer
BindQueryArray(required, values) ==
    IF Len(values) = 0
    THEN [err |-> IF required THEN "MissingParameter" ELSE NoErr, value |-> NIL]
    ELSE [err |-> NoErr, value |-> Ptr(values)]

DigitChars == {"0", "1", "2", "3", "4", "5", "6", "7", "8", "9"}

\* whether str is an integer in its canonical form
IsNumber(str) ==
    LET body == IF str # <<>> /\ str[1] = "-" THEN Tail(str) ELSE str
    IN  body # <<>> /\ \A i \in 1..Len(body) : body[i] \in DigitChars

\* the number a string of digits stands for
RECURSIVE NatOf(_)
NatOf(str) ==
    IF str = <<>> THEN 0
    ELSE NatOf(SubSeq(str, 1, Len(str) - 1)) * 10
         + (CHOOSE d \in 0..9 : <<"0", "1", "2", "3", "4", "5", "6", "7", "8", "9">>[d + 1] = str[Len(str)])

\* the same for an integer target (int32): one value, which is a number
BindQueryInt(required, values) ==
    IF Len(values) = 0
    THEN [err |-> IF required THEN "MissingParameter" ELSE NoErr, value |-> NIL]
    ELSE IF Len(values) > 1 \/ ~IsNumber(values[1])
    THEN [err |-> "MalformedParameter", value |-> NIL]
    ELSE [err |-> NoErr,
          value |-> Ptr(IF values[1][1] = "-"
                        THEN 0 - NatOf(Tail(values[1]))
                        ELSE NatOf(values[1]))]

(***************************************************************************)
(* net/url, as the request builders use it.  A server is the string given  *)
(* to NewClient, described by what url.Parse makes of it.                  *)
(***************************************************************************)
\* the byte order of the characters that occur in query keys
CharOrder == <<" ", "%", "&", "+", ",", "-", ".", "0", "1", "2", "3", "4", "5", "6",
               "7", "8", "9", "=", "?", "C", "D", "F", "a", "f", "g", "i", "l", "m", "o",
               "s", "t">>

CharRank(c) == CHOOSE i \in 1..Len(CharOrder) : CharOrder[i] = c

\* a < b as Go compares strings
RECURSIVE LexLess(_, _)
LexLess(a, b) ==
    IF b = <<>> THEN FALSE
    ELSE IF a = <<>> THEN TRUE
    ELSE IF Head(a) = Head(b) THEN LexLess(Tail(a), Tail(b))
    ELSE CharRank(Head(a)) < CharRank(Head(b))

\* the strings of a set in ascending order (sort.Strings)
RECURSIVE Sorted(_)
Sorted(S) ==
    IF S = {} THEN <<>>
    ELSE LET least == CHOOSE x \in S : \A y \in S \ {x} : LexLess(x, y)
         IN  <<least>> \o Sorted(S \ {least})

\* the concatenation of the strings of a sequence
RECURSIVE Concat(_)
Concat(parts) == IF parts = <<>> THEN <<>> ELSE Head(parts) \o Concat(Tail(parts))

\* the character two hex digits after a "%" stand for, "" when they stand
\* for none
HexChar(h1, h2) ==
    CASE h1 = "2" /\ h2 = "0" -> " "
      [] h1 = "2" /\ h2 = "6" -> "&"
      [] h1 = "2" /\ h2 = "C" -> ","
      [] h1 = "3" /\ h2 = "D" -> "="
      [] h1 = "3" /\ h2 = "F" -> "?"
      [] OTHER -> ""

\* url.QueryUnescape (plus: "+" is a space) and url.PathUnescape
RECURSIVE Unescape(_, _)
Unescape(str, plus) ==
    IF str = <<>> THEN [err |-> NoErr, value |-> <<>>]
    ELSE IF Head(str) = "%"
    THEN IF Len(str) < 3 \/ HexChar(str[2], str[3]) = ""
         THEN [err |-> "invalid URL escape", value |-> <<>>]
         ELSE LET rest == Unescape(SubSeq(str, 4, Len(str)), plus)
              IN  [err |-> rest.err,
                   value |-> <<HexChar(str[2], str[3])>> \o rest.value]
    ELSE LET rest == Unescape(Tail(str), plus)
         IN  [err |-> rest.err,
              value |-> <<IF plus /\ Head(str) = "+" THEN " " ELSE Head(str)>>
                           \o rest.value]

\* url.QueryEscape
QueryEscapeChar(c) ==
    CASE c = " " -> <<"+">>
      [] c = "&" -> <<"%", "2", "6">>
      [] c = "," -> <<"%", "2", "C">>
      [] c = "=" -> <<"%", "3", "D">>
      [] c = "?" -> <<"%", "3", "F">>
      [] OTHER   -> <<c>>

QueryEscape(str) == Concat([i \in 1..Len(str) |-> QueryEscapeChar(str[i])])

\* the position of the first c in str, 0 when there is none
IndexOf(str, c) ==
    IF \E i \in 1..Len(str) : str[i] = c
    THEN CHOOSE i \in 1..Len(str) : str[i] = c /\ \A j \in 1..(i - 1) : str[j] # c
    ELSE 0

\* one key=value part of a query string
QueryPair(part) ==
    LET eq  == IndexOf(part, "=")
        key == IF eq = 0 THEN part ELSE SubSeq(part, 1, eq - 1)
        val == IF eq = 0 THEN <<>> ELSE SubSeq(part, eq + 1, Len(part))
    IN  [key |-> Unescape(key, TRUE), value |-> Unescape(val, TRUE)]

\* url.ParseQuery: url.Values, each key with its values in order of
\* appearance; empty parts are skipped
ParseQuery(query) ==
    LET parts == SelectSeq(Split(query, "&"), LAMBDA x : x # <<>>)
        pairs == [i \in 1..Len(parts) |-> QueryPair(parts[i])]
        bad   == \E i \in 1..Len(pairs) :
                    pairs[i].key.err # NoErr \/ pairs[i].value.err # NoErr
        good  == SelectSeq(pairs, LAMBDA x : x.key.err = NoErr /\ x.value.err = NoErr)
        keys  == {good[i].key.value : i \in 1..Len(good)}
        of(k) == LET mine == SelectSeq(good, LAMBDA x : x.key.value = k)
                 IN  [i \in 1..Len(mine) |-> mine[i].value.value]
    IN  [err |-> IF bad THEN "invalid URL escape" ELSE NoErr,
         values |-> [k \in keys |-> of(k)]]

\* url.Values.Get-like access: the values of a key, none when it is absent
ValuesOf(values, key) == IF key \in DOMAIN values THEN values[key] ELSE <<>>

\* for k, v := range parsed { for _, v2 := range v { queryValues.Add(k, v2) } }
AddAll(values, parsed) ==
    [k \in DOMAIN values \cup DOMAIN parsed |->
        ValuesOf(values, k) \o ValuesOf(parsed, k)]

\* url.Values.Encode: the keys sorted, key=value for each value, joined by &
Encode(values) ==
    LET keys == Sorted(DOMAIN values)
        of(k) == [i \in 1..Len(values[k]) |->
                     QueryEscape(k) \o <<"=">> \o QueryEscape(values[k][i])]
        all == Concat([i \in 1..Len(keys) |-> of(keys[i])])
    IN  Join(all, "&")

ZeroURL == [Scheme |-> "", Host |-> "", Path |-> <<>>, RawQuery |-> <<>>]

PathApi == <<"/","a","p","i","/">>
QueryKV == <<"k","=","v">>

Servers ==
    { [valid |-> TRUE, Scheme |-> "http", Host |-> "petstore.example",
       Path |-> <<>>, RawQuery |-> <<>>],
      [valid |-> TRUE, Scheme |-> "https", Host |-> "api.example",
       Path |-> PathApi, RawQuery |-> QueryKV],
      [valid |-> FALSE, Scheme |-> "", Host |-> "", Path |-> <<>>,
       RawQuery |-> <<>>] }

\* the empty string as a server
ZeroServer ==
    [valid |-> TRUE, Scheme |-> "", Host |-> "", Path |-> <<>>, RawQuery |-> <<>>]

\* url.Parse(server)
URLParse(server) ==
    IF server.valid
    THEN [err |-> NoErr,
          url |-> [Scheme |-> server.Scheme, Host |-> server.Host,
                   Path |-> server.Path, RawQuery |-> server.RawQuery]]
    ELSE [err |-> "parse: invalid URL", url |-> ZeroURL]

DotSegment == <<".">>
DotDotSegment == <<".", ".">>

\* the segments of a path without its dot segments: "." is dropped, ".."
\* drops the segment before it as well
RECURSIVE RemoveDotSegments(_, _, _)
RemoveDotSegments(src, i, dst) ==
    IF i > Len(src) THEN dst
    ELSE IF src[i] = DotSegment THEN RemoveDotSegments(src, i + 1, dst)
    ELSE IF src[i] = DotDotSegment
    THEN RemoveDotSegments(src, i + 1,
                           IF Len(dst) > 0 THEN SubSeq(dst, 1, Len(dst) - 1)
                           ELSE dst)
    ELSE RemoveDotSegments(src, i + 1, Append(dst, src[i]))

\* net/url's resolvePath for a reference that starts with "/": the path of
\* the reference without its dot segments, ending in "/" when its last
\* segment was one
ResolvePath(full) ==
    IF full = <<>> THEN <<>>
    ELSE LET src    == SplitFrom(full, "/", <<>>)
             kept   == RemoveDotSegments(src, 1, <<>>)
             dst    == IF src[Len(src)] \in {DotSegment, DotDotSegment}
                       THEN Append(kept, <<>>) ELSE kept
             joined == Join(dst, "/")
         IN  <<"/">> \o (IF joined # <<>> /\ Head(joined) = "/"
                         THEN Tail(joined) ELSE joined)

\* queryUrl.Parse(ref) for a reference that starts with "/": the path and
\* the query of the reference replace those of the base, and the path is
\* resolved
URLResolve(base, ref) ==
    LET q    == IndexOf(ref, "?")
        raw  == IF q = 0 THEN ref ELSE SubSeq(ref, 1, q - 1)
        qry  == IF q = 0 THEN <<>> ELSE SubSeq(ref, q + 1, Len(ref))
        path == Unescape(raw, FALSE)
    IN  IF path.err # NoErr
        THEN [err |-> path.err, url |-> ZeroURL]
        ELSE [err |-> NoErr,
              url |-> [Scheme |-> base.Scheme, Host |-> base.Host,
                       Path |-> Unescape(ResolvePath(raw), FALSE).value,
                       RawQuery |-> qry]]

(***************************************************************************)
(* StyleParam of package runtime, from the specification's section 4.1:    *)
(* the value is composed according to style and explode, and what is not   *)
(* a separator of the style is percent-encoded.                            *)
(***************************************************************************)
Digits == <<"0", "1", "2", "3", "4", "5", "6", "7", "8", "9">>

\* the canonical string of an integer
RECURSIVE IntStr(_)
IntStr(n) ==
    IF n < 0 THEN <<"-">> \o IntStr(0 - n)
    ELSE IF n < 10 THEN <<Digits[n + 1]>>
    ELSE IntStr(n \div 10) \o <<Digits[(n % 10) + 1]>>

\* percent-encoding of what is not a separator of the style
PercentChar(c) ==
    CASE c = " " -> <<"%", "2", "0">>
      [] c = "?" -> <<"%", "3", "F">>
      [] OTHER   -> <<c>>

PercentEncode(str) == Concat([i \in 1..Len(str) |-> PercentChar(str[i])])

\* values are tagged with their shape
StrVal(str) == [kind |-> "string", str |-> str]
IntVal(n) == [kind |-> "int", n |-> n]
ArrVal(items) == [kind |-> "array", items |-> items]
ObjVal(fields) == [kind |-> "object", fields |-> fields]

\* a scalar's string representation
Scalar(v) == IF v.kind = "int" THEN IntStr(v.n) ELSE PercentEncode(v.str)

\* style simple, explode false: a scalar as it is, an array joined by ",",
\* an object as key,value,key,value,...
StyleSimple(v) ==
    CASE v.kind = "array" ->
           Join([i \in 1..Len(v.items) |-> PercentEncode(v.items[i])], ",")
      [] v.kind = "object" ->
           LET keys == Sorted(DOMAIN v.fields)
           IN  Join(Concat([i \in 1..Len(keys) |->
                              <<PercentEncode(keys[i]),
                                PercentEncode(v.fields[keys[i]])>>]), ",")
      [] OTHER -> Scalar(v)

\* style form, explode true: name=value, for an array one pair per element
StyleFormExplode(name, v) ==
    CASE v.kind = "array" ->
           Join([i \in 1..Len(v.items) |->
                   name \o <<"=">> \o PercentEncode(v.items[i])], "&")
      [] OTHER -> name \o <<"=">> \o Scalar(v)

\* runtime.StyleParam(style, explode, name, value), for the styles the
\* generated code asks for
StyleParam(style, explode, name, v) ==
    IF style = "simple" /\ ~explode
    THEN [err |-> NoErr, frag |-> StyleSimple(v)]
    ELSE IF style = "form" /\ explode /\ v.kind # "object"
    THEN [err |-> NoErr, frag |-> StyleFormExplode(name, v)]
    ELSE [err |-> "StyleMismatch", frag |-> <<>>]

(***************************************************************************)
(* The request builders (New*Request).                                     *)
(***************************************************************************)
NameTags == <<"t","a","g","s">>
NameLimit == <<"l","i","m","i","t">>
NameFoo == <<"f","o","o">>
NameId == <<"i","d">>
NameFallthrough == <<"f","a","l","l","t","h","r","o","u","g","h">>
Name1param == <<"1","p","a","r","a","m">>

PathPets == <<"/","p","e","t","s">>
PathPetsId == <<"/","p","e","t","s","/">>
PathIssue30 == <<"/","i","s","s","u","e","s","/","3","0","/">>
PathIssue41 == <<"/","i","s","s","u","e","s","/","4","1","/">>
PathIssue9 == <<"/","i","s","s","u","e","s","/","9">>

\* what a builder hands back: (req, nil), (nil, err), or no return at all
\* when it dereferences a nil pointer
Built(req) == [err |-> NoErr, panicked |-> FALSE, req |-> Ptr(req)]
Failed(err) == [err |-> err, panicked |-> FALSE, req |-> NIL]
Panicked == [err |-> "panic: nil pointer dereference", panicked |-> TRUE, req |-> NIL]

\* a body: none (nil), a caller's io.Reader, marshalled JSON, or the value
\* the caller wants marshalled
NoBody == [kind |-> "none", of |-> ""]
ReaderBody(name) == [kind |-> "reader", of |-> name]
JSONBody(value) == [kind |-> "json", of |-> value]
ValueBody(value) == [kind |-> "value", of |-> value]

\* http.NewRequest(method, queryUrl.String(), body)
NewRequest(method, url, body) ==
    [Method |-> method, URL |-> url, Body |-> body, Ctx |-> "Background",
     Header |-> [ContentType |-> NIL, Authorization |-> NIL]]

\* req.Header.Add("Content-Type", contentType)
WithContentType(req, contentType) ==
    [req EXCEPT !.Header.ContentType = Ptr(contentType)]

\* json.Marshal(body)
JSONMarshal(body) ==
    IF body.of = "unsupported"
    THEN [err |-> "json: unsupported type", bytes |-> NoBody]
    ELSE [err |-> NoErr, bytes |-> JSONBody(body.of)]

\* url.Parse(server) and queryUrl.Parse(path)
QueryUrl(server, path) ==
    LET u == URLParse(server)
    IN  IF u.err # NoErr THEN u ELSE URLResolve(u.url, path)

\* a query parameter styled, parsed and added to queryValues
AddQueryParam(values, name, v) ==
    LET frag == StyleParam("form", TRUE, name, v)
    IN  IF frag.err # NoErr THEN [err |-> frag.err, values |-> values]
        ELSE LET parsed == ParseQuery(frag.frag)
             IN  IF parsed.err # NoErr
                 THEN [err |-> parsed.err, values |-> values]
                 ELSE [err |-> NoErr, values |-> AddAll(values, parsed.values)]

NewFindPetsRequest(server, params) ==
    LET u == QueryUrl(server, PathPets)
    IN  IF u.err # NoErr THEN Failed(u.err)
        ELSE IF params = NIL THEN Panicked
        ELSE LET p  == params[1]
                 q0 == ParseQuery(u.url.RawQuery).values
                 q1 == IF p.Tags # NIL
                       THEN AddQueryParam(q0, NameTags, ArrVal(p.Tags[1]))
                       ELSE [err |-> NoErr, values |-> q0]
                 q2 == IF p.Limit # NIL
                       THEN AddQueryParam(q1.values, NameLimit, IntVal(p.Limit[1]))
                       ELSE [err |-> NoErr, values |-> q1.values]
             IN  IF q1.err # NoErr THEN Failed(q1.err)
                 ELSE IF q2.err # NoErr THEN Failed(q2.err)
                 ELSE Built(NewRequest("GET",
                                       [u.url EXCEPT !.RawQuery = Encode(q2.values)],
                                       NoBody))

NewAddPetRequestWithBody(server, contentType, body) ==
    LET u == QueryUrl(server, PathPets)
    IN  IF u.err # NoErr THEN Failed(u.err)
        ELSE Built(WithContentType(NewRequest("POST", u.url, body), contentType))

NewAddPetRequest(server, body) ==
    LET buf == JSONMarshal(body)
    IN  IF buf.err # NoErr THEN Failed(buf.err)
        ELSE NewAddPetRequestWithBody(server, "application/json", buf.bytes)

\* a request whose path ends in a path parameter styled simple, not exploded
PathParamRequest(method, server, prefix, name, v) ==
    LET frag == StyleParam("simple", FALSE, name, v)
    IN  IF frag.err # NoErr THEN Failed(frag.err)
        ELSE LET u == QueryUrl(server, prefix \o frag.frag)
             IN  IF u.err # NoErr THEN Failed(u.err)
                 ELSE Built(NewRequest(method, u.url, NoBody))

NewDeletePetRequest(server, id) ==
    PathParamRequest("DELETE", server, PathPetsId, NameId, IntVal(id))

NewFindPetByIdRequest(server, id) ==
    PathParamRequest("GET", server, PathPetsId, NameId, IntVal(id))

NewIssue30Request(server, pFallthrough) ==
    PathParamRequest("GET", server, PathIssue30, NameFallthrough, StrVal(pFallthrough))

NewIssue41Request(server, n1param) ==
    PathParamRequest("GET", server, PathIssue41, Name1param, ObjVal(n1param))

NewIssue9RequestWithBody(server, params, contentType, body) ==
    LET u == QueryUrl(server, PathIssue9)
    IN  IF u.err # NoErr THEN Failed(u.err)
        ELSE IF params = NIL THEN Panicked
        ELSE LET q0 == ParseQuery(u.url.RawQuery).values
                 q1 == AddQueryParam(q0, NameFoo, StrVal(params[1].Foo))
             IN  IF q1.err # NoErr THEN Failed(q1.err)
                 ELSE Built(WithContentType(
                               NewRequest("GET",
                                          [u.url EXCEPT !.RawQuery = Encode(q1.values)],
                                          body),
                               contentType))

NewIssue9Request(server, params, body) ==
    LET buf == JSONMarshal(body)
    IN  IF buf.err # NoErr THEN Failed(buf.err)
        ELSE NewIssue9RequestWithBody(server, params, "application/json", buf.bytes)

(***************************************************************************)
(* The arguments the builders and the Client methods are called with.      *)
(***************************************************************************)
\* the sequences over S of at most n elements
SeqsUpTo(S, n) == UNION {[1..k -> S] : k \in 0..n}

TagValues == {<<"a">>, <<>>, <<" ">>, <<",">>, <<"a", "&", "a">>}

LimitValues == {0, 12, -3}

FindPetsParamsSet ==
    {NIL} \cup
    {Ptr([Tags |-> tags, Limit |-> limit]) :
        tags \in {NIL} \cup {Ptr(a) : a \in SeqsUpTo(TagValues, MaxTags)},
        limit \in {NIL} \cup {Ptr(n) : n \in LimitValues}}

IdValues == {0, 7, 12, -3}

NewPets == {ValueBody("NewPet")}

ReaderBodies == {ReaderBody("reader")}

RequestContentTypes == {"application/json", "text/plain"}

Issue9ParamsSet == {NIL} \cup {Ptr([Foo |-> foo]) : foo \in Strings(1)}

Issue9Bodies == {ValueBody("null"), ValueBody("object"), ValueBody("unsupported")}

ObjKeys == {<<"a">>, <<",">>, <<>>}
ObjValues == {<<"a">>, <<>>, <<",">>, <<" ">>}

\* the values of N5StartsWithNumber: maps from strings to strings
Objects == UNION {[K -> ObjValues] : K \in SUBSET ObjKeys}

\* a call: the method (of Client) or builder, and its arguments
CallsOn(server) ==
    {[method |-> "FindPets", server |-> server, params |-> p] :
        p \in FindPetsParamsSet}
    \cup {[method |-> "AddPetWithBody", server |-> server, contentType |-> ct,
           body |-> b] : ct \in RequestContentTypes, b \in ReaderBodies}
    \cup {[method |-> "AddPet", server |-> server, body |-> b] : b \in NewPets}
    \cup {[method |-> m, server |-> server, id |-> id] :
            m \in {"DeletePet", "FindPetById"}, id \in IdValues}
    \cup {[method |-> "Issue30", server |-> server, pFallthrough |-> v] :
            v \in Strings(MaxLen)}
    \cup {[method |-> "Issue41", server |-> server, n1param |-> o] : o \in Objects}
    \cup {[method |-> "Issue9WithBody", server |-> server, params |-> p,
           contentType |-> ct, body |-> b] :
            p \in Issue9ParamsSet, ct \in RequestContentTypes, b \in ReaderBodies}
    \cup {[method |-> "Issue9", server |-> server, params |-> p, body |-> b] :
            p \in Issue9ParamsSet, b \in Issue9Bodies}

Calls == UNION {CallsOn(server) : server \in Servers}

\* the builder each Client method starts with
BuildRequest(c) ==
    CASE c.method = "FindPets" -> NewFindPetsRequest(c.server, c.params)
      [] c.method = "AddPetWithBody" ->
           NewAddPetRequestWithBody(c.server, c.contentType, c.body)
      [] c.method = "AddPet" -> NewAddPetRequest(c.server, c.body)
      [] c.method = "DeletePet" -> NewDeletePetRequest(c.server, c.id)
      [] c.method = "FindPetById" -> NewFindPetByIdRequest(c.server, c.id)
      [] c.method = "Issue30" -> NewIssue30Request(c.server, c.pFallthrough)
      [] c.method = "Issue41" -> NewIssue41Request(c.server, c.n1param)
      [] c.method = "Issue9WithBody" ->
           NewIssue9RequestWithBody(c.server, c.params, c.contentType, c.body)
      [] OTHER -> NewIssue9Request(c.server, c.params, c.body)

(***************************************************************************)
(* The Client methods: the request is built, the RequestEditor (if one is  *)
(* configured) is called with it, and c.Client.Do sends it.                *)
(***************************************************************************)
\* req.WithContext(ctx)
WithContext(req, ctx) == [req EXCEPT !.Ctx = ctx]

\* what a RequestEditorFn may do: leave the request alone or add a header
\* to it, and return nil or an error
EditorResults ==
    {[err |-> e, header |-> h] :
        e \in {NoErr, "editor failed"}, h \in {NIL, Ptr("token")}}

\* what HttpRequestDoer.Do may return
DoResults ==
    {[resp |-> Ptr([StatusCode |-> s]), err |-> NoErr] : s \in {200, 404}}
    \cup {[resp |-> NIL, err |-> "connection refused"]}

\* the request as the RequestEditor left it
Edited(req, r) ==
    IF r.header = NIL THEN req ELSE [req EXCEPT !.Header.Authorization = r.header]

\* a call of one of the two callbacks
CallOf(fn, req) == [fn |-> fn, req |-> req]

\* where a method goes once the builder is back
AfterBuild(out, hasEditor) ==
    IF out.panicked THEN "panicked"
    ELSE IF out.err # NoErr THEN "returned"
    ELSE IF hasEditor THEN "RequestEditor"
    ELSE "Do"

\* a method that sends the request whatever the RequestEditor returned
AfterEditorAlwaysDo(err) == "Do"

\* where a method goes once the RequestEditor is back
AfterEditor(err) == IF err # NoErr THEN "returned" ELSE "Do"

(***************************************************************************)
(* NewClient and the ClientOptions.  A function value (a Doer, a           *)
(* RequestEditorFn) is its name, "nil" being nil.                          *)
(***************************************************************************)
Doers == {"nil", "custom", "mock"}

EditorFns == {"nil", "addToken", "addTrace"}

\* a ClientOption: one of the three the package gives, or one of the
\* caller's own that returns an error
Option(opt, doer, fn, baseURL) ==
    [opt |-> opt, doer |-> doer, fn |-> fn, baseURL |-> baseURL]

Options ==
    {Option("WithHTTPClient", d, "nil", ZeroServer) : d \in Doers}
    \cup {Option("WithRequestEditorFn", "nil", f, ZeroServer) : f \in EditorFns}
    \cup {Option("WithBaseURL", "nil", "nil", s) : s \in Servers}
    \cup {Option("failing", "nil", "nil", ZeroServer)}

\* the last character of str is c
HasSuffix(str, c) == str # <<>> /\ str[Len(str)] = c

\* baseURL with "/" added to the string unless it ends with one: the string
\* ends with its query when it has one, with its path otherwise
WithSlash(baseURL) ==
    IF baseURL.RawQuery # <<>>
    THEN IF HasSuffix(baseURL.RawQuery, "/") THEN baseURL
         ELSE [baseURL EXCEPT !.RawQuery = @ \o <<"/">>]
    ELSE IF HasSuffix(baseURL.Path, "/") THEN baseURL
         ELSE [baseURL EXCEPT !.Path = @ \o <<"/">>]

\* newBaseURL.String() as a server
URLString(url) ==
    [valid |-> TRUE, Scheme |-> url.Scheme, Host |-> url.Host,
     Path |-> url.Path, RawQuery |-> url.RawQuery]

\* o(&client): the error the option returns and the client it leaves
Apply(o, c) ==
    CASE o.opt = "WithHTTPClient" ->
           [err |-> NoErr, client |-> [c EXCEPT !.Client = o.doer]]
      [] o.opt = "WithRequestEditorFn" ->
           [err |-> NoErr, client |-> [c EXCEPT !.RequestEditor = o.fn]]
      [] o.opt = "WithBaseURL" ->
           LET newBaseURL == URLParse(WithSlash(o.baseURL))
           IN  IF newBaseURL.err # NoErr
               THEN [err |-> newBaseURL.err, client |-> c]
               ELSE [err |-> NoErr,
                     client |-> [c EXCEPT !.Server = URLString(newBaseURL.url)]]
      [] OTHER -> [err |-> "option failed", client |-> c]

\* for _, o := range opts: the options from the i-th on, applied in order
\* up to the first that returns an error
RECURSIVE ApplyFrom(_, _, _)
ApplyFrom(opts, i, c) ==
    IF i > Len(opts) THEN [err |-> NoErr, client |-> c, applied |-> i - 1]
    ELSE LET r == Apply(opts[i], c)
         IN  IF r.err # NoErr
             THEN [err |-> r.err, client |-> r.client, applied |-> i]
             ELSE ApplyFrom(opts, i + 1, r.client)

\* a NewClient that leaves the Doer as the options left it
KeepDoer(c) == c

\* if client.Client == nil { client.Client = http.DefaultClient }
DefaultDoer(c) ==
    IF c.Client = "nil" THEN [c EXCEPT !.Client = "http.DefaultClient"] ELSE c

\* NewClient(server, opts...)
NewClient(server, opts) ==
    LET r == ApplyFrom(opts, 1, [Server |-> server, Client |-> "nil",
                                 RequestEditor |-> "nil"])
    IN  IF r.err # NoErr
        THEN [client |-> NIL, err |-> r.err, applied |-> r.applied]
        ELSE [client |-> Ptr(DefaultDoer(r.client)), err |-> NoErr,
              applied |-> r.applied]

(***************************************************************************)
(* The echo server wrappers of the schemas test API.                       *)
(***************************************************************************)
\* what the user handler returns
HandlerErrors == {NoErr, "handler failed"}

\* the values of a query key: none when the key is absent
QueryValues ==
    UNION {[1..n -> Strings(1)] : n \in 0..MaxValues}

\* echo's ctx.QueryParam(name): the first value of the key, "" without one
QueryParam(values) == IF Len(values) = 0 THEN <<>> ELSE values[1]

\* echo.NewHTTPError(http.StatusBadRequest, message)
BadRequest(message) == [kind |-> "HTTPError", code |-> 400, message |-> message]

\* echo's answer to a path no route is registered for
NotFound == [kind |-> "HTTPError", code |-> 404, message |-> <<"Not Found">>]

\* what a wrapper returns after the handler ran: err of the handler
Returned(err) == [kind |-> "error", code |-> 0, message |-> <<err>>]

\* ServerInterfaceWrapper.Issue30 on ctx.Param("fallthrough") = value
WrapIssue30(value, herr) ==
    LET b == BindStyledParameter("string", value)
    IN  IF b.err # NoErr
        THEN [ret |-> BadRequest(<<"Invalid format for parameter ",
                                   "fallthrough", ": ", b.err>>),
              handled |-> <<>>]
        ELSE [ret |-> Returned(herr),
              handled |-> <<[op |-> "Issue30", arg |-> b.value]>>]

\* ServerInterfaceWrapper.Issue41 on ctx.Param("1param") = value
WrapIssue41(value, herr) ==
    LET b == BindStyledParameter("object", value)
    IN  IF b.err # NoErr
        THEN [ret |-> BadRequest(<<"Invalid format for parameter ",
                                   "1param", ": ", b.err>>),
              handled |-> <<>>]
        ELSE [ret |-> Returned(herr),
              handled |-> <<[op |-> "Issue41", arg |-> b.value]>>]

\* the presence test on "foo": ctx.QueryParam("foo") != ""
FooPresent(values) == QueryParam(values) # <<>>

\* ServerInterfaceWrapper.Issue9 on ctx.QueryParams()["foo"] = values
WrapIssue9(values, herr) ==
    IF ~FooPresent(values)
    THEN [ret |-> BadRequest(<<"Query argument ", "foo",
                               " is required, but not found">>),
          handled |-> <<>>]
    ELSE LET b == BindQueryParameter(TRUE, values)
         IN  IF b.err # NoErr
             THEN [ret |-> BadRequest(<<"Invalid format for parameter ",
                                        "foo", ": ", b.err>>),
                   handled |-> <<>>]
             ELSE [ret |-> Returned(herr),
                   handled |-> <<[op |-> "Issue9", arg |-> [Foo |-> b.value]]>>]

\* the wrapper of FindPets of the petstore server, which binds the optional
\* query parameters "tags" ([]string) and "limit" (int32) the way the
\* wrapper of Issue9 binds "foo"
WrapFindPets(tags, limit, herr) ==
    LET t == BindQueryArray(FALSE, tags)
        l == BindQueryInt(FALSE, limit)
    IN  IF t.err # NoErr
        THEN [ret |-> BadRequest(<<"Invalid format for parameter ",
                                   "tags", ": ", t.err>>),
              handled |-> <<>>]
        ELSE IF l.err # NoErr
        THEN [ret |-> BadRequest(<<"Invalid format for parameter ",
                                   "limit", ": ", l.err>>),
              handled |-> <<>>]
        ELSE [ret |-> Returned(herr),
              handled |-> <<[op |-> "FindPets",
                             arg |-> [Tags |-> t.value, Limit |-> l.value]]>>]

(***************************************************************************)
(* The state before any operation ran.                                     *)
(***************************************************************************)
IdleResponse ==
    [StatusCode |-> 200,
     Header     |-> [ContentType |-> <<>>],
     Body       |-> [data |-> <<>>, pos |-> 0, closed |-> FALSE, closes |-> 0,
                     kind |-> "nop", broken |-> FALSE]]

NoParse ==
    [fn |-> "", calls |-> 0, local |-> NIL, ret |-> NIL, err |-> NoErr,
     rule |-> 0, read |-> <<>>, log |-> <<>>]

NoDispatch ==
    [fn |-> "", ran |-> FALSE, status |-> 0, ct |-> <<>>, body |-> <<>>,
     hit |-> 0, field |-> "", err |-> NoErr]

NoBuild == [ran |-> FALSE, call |-> [method |-> ""], out |-> Failed(NoErr)]

NoReturn == [resp |-> NIL, err |-> NoErr]

NoClient ==
    [pc |-> "idle", RequestEditor |-> FALSE, req |-> NIL, events |-> <<>>,
     edit |-> NIL, ret |-> NoReturn]

NoConc ==
    [client |-> [Server |-> ZeroServer, RequestEditor |-> FALSE],
     client0 |-> [Server |-> ZeroServer, RequestEditor |-> FALSE],
     procs |-> <<>>]

NoNewClient ==
    [ran |-> FALSE, server |-> ZeroServer, opts |-> <<>>,
     out |-> [client |-> NIL, err |-> NoErr, applied |-> 0]]

NoServe ==
    [op |-> "", ran |-> FALSE, param |-> <<>>, query |-> <<>>, limit |-> <<>>,
     herr |-> NoErr, ret |-> Returned(NoErr), handled |-> <<>>]

(***************************************************************************)
(* Specification of the parsers: a response arrives and parsers are        *)
(* invoked on it, at most MaxCalls times.                                  *)
(***************************************************************************)
InitParse ==
    /\ rsp \in Responses
    /\ parse = NoParse
    /\ rules = <<>>
    /\ disp = NoDispatch
    /\ srv = NoServe
    /\ bld = NoBuild
    /\ cli = NoClient
    /\ conc = NoConc
    /\ nc = NoNewClient

Parse(fn) ==
    /\ parse.calls < MaxCalls
    /\ LET out == ParseResponse(fn, rsp)
       IN  /\ rsp' = out.rsp
           /\ parse' = [fn |-> fn, calls |-> parse.calls + 1,
                        local |-> out.local, ret |-> out.ret, err |-> out.err,
                        rule |-> out.rule, read |-> out.read, log |-> out.log]
    /\ UNCHANGED <<rules, disp, srv, bld, cli, conc, nc>>

NextParse == \E fn \in Parsers : Parse(fn)

SpecParse == InitParse /\ [][NextParse]_vars

(***************************************************************************)
(* Specification of the switch alone: the cases of a parser declared in    *)
(* any order (rules), evaluated as Go evaluates a switch.                  *)
(***************************************************************************)
\* the orders in which a case list can be declared
Orders(cases) ==
    LET n == Len(cases)
        bij == {p \in [1..n -> 1..n] : \A i, j \in 1..n : p[i] = p[j] => i = j}
    IN  {[i \in 1..n |-> cases[p[i]]] : p \in bij}

InitDispatch ==
    /\ rsp = IdleResponse
    /\ parse = NoParse
    /\ srv = NoServe
    /\ bld = NoBuild
    /\ cli = NoClient
    /\ conc = NoConc
    /\ nc = NoNewClient
    /\ \E fn \in Parsers :
          /\ rules \in Orders(Rules(fn))
          /\ disp = [NoDispatch EXCEPT !.fn = fn]

Dispatch(status, ct, body) ==
    LET r == [StatusCode |-> status, Header |-> [ContentType |-> <<ct>>]]
        d == DecodeWith(rules, disp.fn, body, r)
    IN  /\ disp' = [fn |-> disp.fn, ran |-> TRUE, status |-> status, ct |-> ct,
                    body |-> body, hit |-> d.rule,
                    field |-> IF d.rule = 0 THEN "" ELSE rules[d.rule].field,
                    err |-> d.err]
        /\ UNCHANGED <<rsp, parse, rules, srv, bld, cli, conc, nc>>

NextDispatch ==
    \E status \in StatusCodes, ct \in ContentTypes, body \in Bodies :
        Dispatch(status, ct, body)

SpecDispatch == InitDispatch /\ [][NextDispatch]_vars

(***************************************************************************)
(* Specification of the server wrappers: requests arrive one after the     *)
(* other, each served by its wrapper.                                      *)
(***************************************************************************)
InitServer ==
    /\ rsp = IdleResponse
    /\ parse = NoParse
    /\ rules = <<>>
    /\ disp = NoDispatch
    /\ srv = NoServe
    /\ bld = NoBuild
    /\ cli = NoClient
    /\ conc = NoConc
    /\ nc = NoNewClient

Issue30(value, herr) ==
    /\ srv' = LET w == WrapIssue30(value, herr)
              IN  [op |-> "Issue30", ran |-> TRUE, param |-> value,
                   query |-> <<>>, limit |-> <<>>, herr |-> herr, ret |-> w.ret,
                   handled |-> w.handled]
    /\ UNCHANGED <<rsp, parse, rules, disp, bld, cli, conc, nc>>

Issue41(value, herr) ==
    /\ srv' = LET w == WrapIssue41(value, herr)
              IN  [op |-> "Issue41", ran |-> TRUE, param |-> value,
                   query |-> <<>>, limit |-> <<>>, herr |-> herr, ret |-> w.ret,
                   handled |-> w.handled]
    /\ UNCHANGED <<rsp, parse, rules, disp, bld, cli, conc, nc>>

Issue9(values, herr) ==
    /\ srv' = LET w == WrapIssue9(values, herr)
              IN  [op |-> "Issue9", ran |-> TRUE, param |-> <<>>,
                   query |-> values, limit |-> <<>>, herr |-> herr, ret |-> w.ret,
                   handled |-> w.handled]
    /\ UNCHANGED <<rsp, parse, rules, disp, bld, cli, conc, nc>>

NextServer ==
    \/ \E value \in Strings(MaxLen), herr \in HandlerErrors : Issue30(value, herr)
    \/ \E value \in Strings(MaxLen), herr \in HandlerErrors : Issue41(value, herr)
    \/ \E values \in QueryValues, herr \in HandlerErrors : Issue9(values, herr)

SpecServer == InitServer /\ [][NextServer]_vars

(***************************************************************************)
(* Specification of the petstore server's FindPets: GET /pets requests     *)
(* arrive one after the other, each with its query.                        *)
(***************************************************************************)
\* the values of the key "limit" in a request
LimitQueries == {<<>>, <<IntStr(12)>>, <<IntStr(-3)>>, <<<<"a">>>>, <<IntStr(0), IntStr(12)>>}

FindPets(tags, limit, herr) ==
    /\ srv' = LET w == WrapFindPets(tags, limit, herr)
              IN  [op |-> "FindPets", ran |-> TRUE, param |-> <<>>,
                   query |-> tags, limit |-> limit, herr |-> herr,
                   ret |-> w.ret, handled |-> w.handled]
    /\ UNCHANGED <<rsp, parse, rules, disp, bld, cli, conc, nc>>

NextPetServer ==
    \E tags \in QueryValues, limit \in LimitQueries, herr \in HandlerErrors :
        FindPets(tags, limit, herr)

SpecPetServer == InitServer /\ [][NextPetServer]_vars

(***************************************************************************)
(* Specification of the request builders, and of a built request served    *)
(* by the wrapper of its operation (the schemas test API).                 *)
(***************************************************************************)
\* whether str starts with prefix
HasPrefix(str, prefix) ==
    Len(str) >= Len(prefix) /\ SubSeq(str, 1, Len(prefix)) = prefix

\* the rest of str after prefix
TrimPrefix(str, prefix) == SubSeq(str, Len(prefix) + 1, Len(str))

\* RegisterHandlers: the wrapper a request is routed to, with what
\* ctx.Param and ctx.QueryParams give it
Route(url, herr) ==
    IF HasPrefix(url.Path, PathIssue30)
    THEN [op |-> "Issue30", param |-> TrimPrefix(url.Path, PathIssue30),
          query |-> <<>>,
          out |-> WrapIssue30(TrimPrefix(url.Path, PathIssue30), herr)]
    ELSE IF HasPrefix(url.Path, PathIssue41)
    THEN [op |-> "Issue41", param |-> TrimPrefix(url.Path, PathIssue41),
          query |-> <<>>,
          out |-> WrapIssue41(TrimPrefix(url.Path, PathIssue41), herr)]
    ELSE IF url.Path = PathIssue9
    THEN LET values == ValuesOf(ParseQuery(url.RawQuery).values, NameFoo)
         IN  [op |-> "Issue9", param |-> <<>>, query |-> values,
              out |-> WrapIssue9(values, herr)]
    ELSE [op |-> "NotFound", param |-> <<>>, query |-> <<>>,
          out |-> [ret |-> NotFound, handled |-> <<>>]]

\* the builder is called with its arguments
InitBuild ==
    /\ rsp = IdleResponse
    /\ parse = NoParse
    /\ rules = <<>>
    /\ disp = NoDispatch
    /\ srv = NoServe
    /\ bld \in {[ran |-> FALSE, call |-> c, out |-> Failed(NoErr)] : c \in Calls}
    /\ cli = NoClient
    /\ conc = NoConc
    /\ nc = NoNewClient

Build ==
    /\ ~bld.ran
    /\ bld' = [bld EXCEPT !.ran = TRUE, !.out = BuildRequest(bld.call)]
    /\ UNCHANGED <<rsp, parse, rules, disp, srv, cli, conc, nc>>

Deliver(herr) ==
    /\ bld.ran
    /\ bld.out.req # NIL
    /\ bld.call.method \in {"Issue30", "Issue41", "Issue9", "Issue9WithBody"}
    /\ ~srv.ran
    /\ srv' = LET r == Route(bld.out.req[1].URL, herr)
              IN  [op |-> r.op, ran |-> TRUE, param |-> r.param,
                   query |-> r.query, limit |-> <<>>, herr |-> herr, ret |-> r.out.ret,
                   handled |-> r.out.handled]
    /\ UNCHANGED <<rsp, parse, rules, disp, bld, cli, conc, nc>>

NextBuild ==
    \/ Build
    \/ \E herr \in HandlerErrors : Deliver(herr)

SpecBuild == InitBuild /\ [][NextBuild]_vars

(***************************************************************************)
(* Specification of the Client methods.  A method is three steps: up to    *)
(* the call of the RequestEditor, from its return to the call of Do, and   *)
(* the return of Do.                                                       *)
(***************************************************************************)
\* a client with or without a RequestEditor, and the call made on it
InitClient ==
    /\ rsp = IdleResponse
    /\ parse = NoParse
    /\ rules = <<>>
    /\ disp = NoDispatch
    /\ srv = NoServe
    /\ bld \in {[ran |-> FALSE, call |-> c, out |-> Failed(NoErr)] : c \in Calls}
    /\ cli \in {[NoClient EXCEPT !.RequestEditor = e] : e \in BOOLEAN}
    /\ conc = NoConc
    /\ nc = NoNewClient

\* the client once the builder gave out: the method returned its error, or
\* called the RequestEditor, or Do when there is none
Started(c, out) ==
    LET pc  == AfterBuild(out, c.RequestEditor)
        req == IF out.req = NIL THEN NIL
               ELSE Ptr(WithContext(out.req[1], "ctx"))
    IN  [c EXCEPT
           !.pc = pc,
           !.req = req,
           !.events = IF pc \in {"RequestEditor", "Do"}
                      THEN <<CallOf(pc, req[1])>> ELSE <<>>,
           !.ret = IF pc = "returned"
                   THEN [resp |-> NIL, err |-> out.err]
                   ELSE NoReturn]

\* the method is called: it builds the request and, unless that failed,
\* calls the RequestEditor, or Do when there is none
Call ==
    /\ cli.pc = "idle"
    /\ \E out \in {BuildRequest(bld.call)} :
          /\ bld' = [bld EXCEPT !.ran = TRUE, !.out = out]
          /\ cli' = Started(cli, out)
    /\ UNCHANGED <<rsp, parse, rules, disp, srv, conc, nc>>

\* the client once the RequestEditor gave r: on an error the method
\* returned it, otherwise it called Do
EditorDone(c, r) ==
    LET pc  == AfterEditor(r.err)
        req == Edited(c.req[1], r)
    IN  [c EXCEPT
           !.pc = pc,
           !.req = Ptr(req),
           !.edit = Ptr(r),
           !.events = IF pc = "Do" THEN Append(@, CallOf("Do", req)) ELSE @,
           !.ret = IF pc = "returned"
                   THEN [resp |-> NIL, err |-> r.err]
                   ELSE NoReturn]

\* the client once Do gave r: the method returned it
DoDone(c, r) == [c EXCEPT !.pc = "returned", !.ret = r]

\* the RequestEditor returns: on an error the method returns it, otherwise
\* it calls Do
EditorReturns(r) ==
    /\ cli.pc = "RequestEditor"
    /\ cli' = EditorDone(cli, r)
    /\ UNCHANGED <<rsp, parse, rules, disp, srv, bld, conc, nc>>

\* Do returns, and the method returns what it returned
DoReturns(r) ==
    /\ cli.pc = "Do"
    /\ cli' = DoDone(cli, r)
    /\ UNCHANGED <<rsp, parse, rules, disp, srv, bld, conc, nc>>

NextClient ==
    \/ Call
    \/ \E r \in EditorResults : EditorReturns(r)
    \/ \E r \in DoResults : DoReturns(r)

SpecClient == InitClient /\ [][NextClient]_vars

(***************************************************************************)
(* Specification of concurrent calls: goroutines share one Client, each    *)
(* calls one of its methods or parses a response of its own, and their     *)
(* steps interleave.                                                       *)
(***************************************************************************)
\* the goroutines
Procs == {1, 2}

\* the Client after a method ran a step on it: the methods only read c
SharedAfterDroppingEditor(client) == [client EXCEPT !.RequestEditor = FALSE]

SharedAfter(client) == client

\* the method calls the goroutines make
ConcCalls(server) ==
    { [method |-> "FindPets", server |-> server, params |-> NIL],
      [method |-> "FindPets", server |-> server,
       params |-> Ptr([Tags |-> Ptr(<<<<"a">>>>), Limit |-> NIL])],
      [method |-> "Issue30", server |-> server, pFallthrough |-> <<"a">>],
      [method |-> "AddPet", server |-> server, body |-> ValueBody("NewPet")] }

\* the responses the goroutines parse
ConcResponses ==
    {r \in Responses :
        /\ r.StatusCode = 200
        /\ HeaderGet(r.Header) = CTJson
        /\ r.Body.kind = "net"
        /\ ~r.Body.broken
        /\ r.Body.data \in {<<"[", "]">>, <<"[", "pet1">>}}

\* what a goroutine does: a method call or the parsing of a response
Jobs(server) ==
    {[kind |-> "method", call |-> c, fn |-> "", rsp |-> IdleResponse] :
        c \in ConcCalls(server)}
    \cup {[kind |-> "parse", call |-> [method |-> ""], fn |-> fn, rsp |-> r] :
            fn \in {"ParseFindPetsResponse", "ParseIssue9Response"},
            r \in ConcResponses}

\* a goroutine before its first step
NewProc(job) == [job |-> job, st |-> NoClient, rsp |-> job.rsp, out |-> NoParse]

InitConcurrent ==
    /\ rsp = IdleResponse
    /\ parse = NoParse
    /\ rules = <<>>
    /\ disp = NoDispatch
    /\ srv = NoServe
    /\ bld = NoBuild
    /\ cli = NoClient
    /\ nc = NoNewClient
    /\ \E server \in Servers, e \in BOOLEAN :
          \E jobs \in [Procs -> Jobs(server)] :
             conc = [client  |-> [Server |-> server, RequestEditor |-> e],
                     client0 |-> [Server |-> server, RequestEditor |-> e],
                     procs   |-> [p \in Procs |-> NewProc(jobs[p])]]

\* goroutine p enters its method: the request is built for c.Server and
\* c.RequestEditor is looked at
ConcCall(p) ==
    /\ conc.procs[p].job.kind = "method"
    /\ conc.procs[p].st.pc = "idle"
    /\ \E out \in {BuildRequest([conc.procs[p].job.call EXCEPT
                                   !.server = conc.client.Server])} :
          conc' = [conc EXCEPT
                     !.client = SharedAfter(@),
                     !.procs[p].st =
                         Started([@ EXCEPT !.RequestEditor =
                                              conc.client.RequestEditor], out)]
    /\ UNCHANGED <<rsp, parse, rules, disp, srv, bld, cli, nc>>

ConcEditorReturns(p, r) ==
    /\ conc.procs[p].st.pc = "RequestEditor"
    /\ conc' = [conc EXCEPT !.client = SharedAfter(@),
                            !.procs[p].st = EditorDone(@, r)]
    /\ UNCHANGED <<rsp, parse, rules, disp, srv, bld, cli, nc>>

ConcDoReturns(p, r) ==
    /\ conc.procs[p].st.pc = "Do"
    /\ conc' = [conc EXCEPT !.procs[p].st = DoDone(@, r)]
    /\ UNCHANGED <<rsp, parse, rules, disp, srv, bld, cli, nc>>

\* goroutine p parses its response
ConcParse(p) ==
    /\ conc.procs[p].job.kind = "parse"
    /\ conc.procs[p].out.calls = 0
    /\ \E out \in {ParseResponse(conc.procs[p].job.fn, conc.procs[p].rsp)} :
          conc' = [conc EXCEPT
                     !.procs[p].rsp = out.rsp,
                     !.procs[p].out =
                         [fn |-> conc.procs[p].job.fn, calls |-> 1,
                          local |-> out.local, ret |-> out.ret,
                          err |-> out.err, rule |-> out.rule,
                          read |-> out.read, log |-> out.log]]
    /\ UNCHANGED <<rsp, parse, rules, disp, srv, bld, cli, nc>>

NextConcurrent ==
    \E p \in Procs :
        \/ ConcCall(p)
        \/ \E r \in EditorResults : ConcEditorReturns(p, r)
        \/ \E r \in DoResults : ConcDoReturns(p, r)
        \/ ConcParse(p)

SpecConcurrent == InitConcurrent /\ [][NextConcurrent]_vars

(***************************************************************************)
(* Specification of NewClient: it is called with a server and options.     *)
(***************************************************************************)
InitNewClient ==
    /\ rsp = IdleResponse
    /\ parse = NoParse
    /\ rules = <<>>
    /\ disp = NoDispatch
    /\ srv = NoServe
    /\ bld = NoBuild
    /\ cli = NoClient
    /\ conc = NoConc
    /\ nc \in {[NoNewClient EXCEPT !.server = s, !.opts = o] :
                 s \in Servers, o \in SeqsUpTo(Options, MaxOpts)}

MakeClient ==
    /\ ~nc.ran
    /\ nc' = [nc EXCEPT !.ran = TRUE, !.out = NewClient(nc.server, nc.opts)]
    /\ UNCHANGED <<rsp, parse, rules, disp, srv, bld, cli, conc>>

NextNewClient == MakeClient

SpecNewClient == InitNewClient /\ [][NextNewClient]_vars

(***************************************************************************)
(* Properties of the response parsers (SpecParse) and of the switch        *)
(* (SpecDispatch).                                                         *)
(***************************************************************************)
\* the typed payload fields of a result struct that are not nil
Populated(result) == {f \in DOMAIN result.typed : result.typed[f] # NIL}

\* the Content-Type value the parsers look at
CT == HeaderGet(rsp.Header)

\* a parser ran and got past reading the body
Parsed == parse.calls >= 1 /\ parse.local # NIL

\* C1: in a parser with an exact-200 JSON rule and a default JSON rule, once
\* the body was read, status 200 with a Content-Type containing "json"
\* populates JSON200 only, any other status with such a Content-Type populates
\* JSONDefault only, and a Content-Type without "json" (absent and empty
\* included) populates nothing and returns the result without an error.
C1_RuleSelection ==
    (Parsed /\ parse.fn \in TwoRuleParsers) =>
        LET l == parse.local[1]
        IN  /\ (Contains(CT, JsonMatcher) /\ rsp.StatusCode = 200)
                  => Populated(l) = {"JSON200"}
            /\ (Contains(CT, JsonMatcher) /\ rsp.StatusCode # 200)
                  => Populated(l) = {"JSONDefault"}
            /\ ~Contains(CT, JsonMatcher)
                  => /\ Populated(l) = {}
                     /\ parse.err = NoErr
                     /\ parse.ret = parse.local

C1_Witness ==
    /\ Parsed
    /\ parse.fn = "ParseFindPetsResponse"
    /\ rsp.StatusCode = 404
    /\ CT = CTJsonCharset
    /\ parse.ret # NIL
    /\ Populated(parse.ret[1]) = {"JSONDefault"}

\* C2: a result returned without an error carries the body bytes that were
\* read and the response's status and headers, has at most one typed payload
\* field set, and has none set when no rule of the parser matches.
C2_ResultShape ==
    (parse.calls >= 1 /\ parse.err = NoErr) =>
        /\ parse.ret # NIL
        /\ parse.ret[1].Body = (IF parse.calls = 1 THEN rsp.Body.data ELSE <<>>)
        /\ parse.ret[1].HTTPResponse =
              Ptr([StatusCode |-> rsp.StatusCode, Header |-> rsp.Header])
        /\ Cardinality(Populated(parse.ret[1])) <= 1
        /\ (\A i \in 1..Len(Rules(parse.fn)) :
               ~RuleMatches(Rules(parse.fn)[i], rsp.StatusCode, CT))
              => Populated(parse.ret[1]) = {}

C2_Witness ==
    /\ parse.calls = 1
    /\ parse.fn = "ParseDeletePetResponse"
    /\ parse.err = NoErr
    /\ parse.ret # NIL
    /\ parse.ret[1].Body = <<"err404">>
    /\ Populated(parse.ret[1]) = {"JSONDefault"}

\* a rule of the parser matched and the body does not decode into its shape
DecodeFailed ==
    /\ Parsed
    /\ parse.rule # 0
    /\ Unmarshal(parse.read, Rules(parse.fn)[parse.rule].shape).err # NoErr

\* C3: when a rule matches and the body cannot be decoded into its shape, the
\* parser reports an error, and the error comes with the response: the caller
\* still gets the raw body bytes and the status code.
C3_DecodeFailureKeepsResponse ==
    DecodeFailed =>
        /\ parse.err # NoErr
        /\ parse.ret # NIL
        /\ parse.ret[1].Body = parse.read
        /\ parse.ret[1].HTTPResponse # NIL
        /\ parse.ret[1].HTTPResponse[1].StatusCode = rsp.StatusCode

\* C4: a Content-Type that contains "json" in any letter case is accepted by
\* the JSON rules of a parser that has some.
C4_CaseInsensitiveMatch ==
    (Parsed /\ Rules(parse.fn) # <<>> /\ Contains(ToLower(CT), JsonMatcher))
        => Populated(parse.local[1]) # {}

\* the cases are declared as the generator emitted them
AsGenerated == rules = Rules(disp.fn)

\* the response dispatched has status 200 and a JSON content type
Dispatched200Json ==
    /\ disp.ran
    /\ disp.fn \in TwoRuleParsers
    /\ disp.status = 200
    /\ Contains(disp.ct, JsonMatcher)

ParseStep == parse'.calls = parse.calls + 1

Range(s) == {s[i] : i \in 1..Len(s)}

\* the parameter of each operation
ParamName(op) ==
    CASE op = "Issue30" -> "fallthrough"
      [] op = "Issue41" -> "1param"
      [] OTHER          -> "foo"

\* the binding of the request's parameter to its target type
Binding ==
    CASE srv.op = "Issue30" -> BindStyledParameter("string", srv.param)
      [] srv.op = "Issue41" -> BindStyledParameter("object", srv.param)
      [] OTHER              -> BindQueryParameter(TRUE, srv.query)

\* the required query parameter is absent from the request
RequiredAbsent == srv.op = "Issue9" /\ Len(srv.query) = 0

\* the arguments the handler is to be called with
BoundArgs ==
    IF srv.op = "Issue9" THEN [Foo |-> Binding.value] ELSE Binding.value

\* C7: a request whose required query parameter is absent, or whose
\* parameter cannot be bound to its target type, is answered with an error
\* of status 400 that names the parameter, without the handler being
\* invoked; any other request has the handler invoked exactly once, with the
\* bound values, and is answered with what the handler returned.
C7_BindOrReject ==
    srv.ran =>
        IF RequiredAbsent \/ Binding.err # NoErr
        THEN /\ srv.ret.kind = "HTTPError"
             /\ srv.ret.code = 400
             /\ ParamName(srv.op) \in Range(srv.ret.message)
             /\ srv.handled = <<>>
        ELSE /\ srv.handled = <<[op |-> srv.op, arg |-> BoundArgs]>>
             /\ srv.ret = Returned(srv.herr)

(***************************************************************************)
(* Properties of the FindPets wrapper (SpecPetServer).                     *)
(***************************************************************************)
\* a GET /pets request whose query has the key "tags" once was served
TagsOnce == srv.ran /\ srv.op = "FindPets" /\ Len(srv.query) = 1

Count(fn) == Cardinality({i \in DOMAIN cli.events : cli.events[i].fn = fn})

\* the builder gave the method a request
RequestBuilt == bld.ran /\ bld.out.req # NIL

\* the request as the method passes it on
BuiltRequest == WithContext(bld.out.req[1], "ctx")

\* C8: in every Client method the RequestEditor, if one is configured, is
\* called once, with the built request, as the first thing after the
\* request was built, and Do is called next, only if the RequestEditor
\* returned nil; Do is called at most once; neither is called when the
\* request could not be built, and an error of the builder or of the
\* RequestEditor is returned with a nil response.
C8_EditorThenDo ==
    /\ Count("Do") <= 1
    /\ Count("RequestEditor") <= 1
    /\ (cli.pc # "idle" /\ ~RequestBuilt) =>
          /\ cli.events = <<>>
          /\ cli.pc \in {"returned", "panicked"}
          /\ cli.pc = "returned" => cli.ret = [resp |-> NIL, err |-> bld.out.err]
    /\ (cli.pc # "idle" /\ RequestBuilt) =>
          IF cli.RequestEditor
          THEN /\ cli.events[1] = CallOf("RequestEditor", BuiltRequest)
               /\ Count("RequestEditor") = 1
               /\ Len(cli.events) = IF cli.edit # NIL /\ cli.edit[1].err = NoErr
                                    THEN 2 ELSE 1
               /\ Len(cli.events) = 2 =>
                     cli.events[2] = CallOf("Do", Edited(BuiltRequest, cli.edit[1]))
               /\ (cli.edit # NIL /\ cli.edit[1].err # NoErr) =>
                     /\ cli.pc = "returned"
                     /\ cli.ret = [resp |-> NIL, err |-> cli.edit[1].err]
          ELSE cli.events = <<CallOf("Do", BuiltRequest)>>

C8_Witness ==
    /\ cli.pc = "returned"
    /\ cli.RequestEditor
    /\ bld.call.method = "Issue9WithBody"
    /\ Len(cli.events) = 2
    /\ cli.events[1].req.Header.Authorization = NIL
    /\ cli.events[2].fn = "Do"
    /\ cli.events[2].req.Header.Authorization = Ptr("token")
    /\ cli.ret.resp = Ptr([StatusCode |-> 404])

(***************************************************************************)
(* Properties of concurrent calls (SpecConcurrent).                        *)
(***************************************************************************)
\* the method call of job run alone on the client, the RequestEditor giving
\* edit[1] and Do giving ret
MethodAlone(client, job, edit, ret) ==
    LET s1 == Started([NoClient EXCEPT !.RequestEditor = client.RequestEditor],
                      BuildRequest([job.call EXCEPT !.server = client.Server]))
        s2 == IF s1.pc = "RequestEditor" THEN EditorDone(s1, edit[1]) ELSE s1
    IN  IF s2.pc = "Do" THEN DoDone(s2, ret) ELSE s2

\* goroutine p is through with its job
Finished(p) ==
    IF conc.procs[p].job.kind = "method"
    THEN conc.procs[p].st.pc \in {"returned", "panicked"}
    ELSE conc.procs[p].out.calls = 1

\* what goroutine p has is what its job gives when it runs alone
AsAlone(p) ==
    LET proc == conc.procs[p]
    IN  IF proc.job.kind = "method"
        THEN /\ proc.st = MethodAlone(conc.client0, proc.job, proc.st.edit,
                                      proc.st.ret)
             /\ proc.rsp = proc.job.rsp
        ELSE LET alone == ParseResponse(proc.job.fn, proc.job.rsp)
             IN  /\ proc.rsp = alone.rsp
                 /\ proc.out.ret = alone.ret
                 /\ proc.out.err = alone.err
                 /\ proc.st = NoClient

PathValue ==
    IF bld.call.method = "Issue30" THEN bld.call.pFallthrough
    ELSE bld.call.n1param

\* the built request of a path parameter was served by its wrapper
PathParamServed == srv.ran /\ bld.call.method \in {"Issue30", "Issue41"}

\* the handler was given the value the request was built from
SameValueBound == srv.handled = <<[op |-> bld.call.method, arg |-> PathValue]>>

\* C9: for every path parameter value (a string for Issue30, an object for
\* Issue41), what the server wrapper binds from the request the client
\* builder made is that value, with all the keys of an object.
C9_RoundTrip == PathParamServed => SameValueBound

\* the query of the request NewFindPetsRequest built
BuiltQuery == ParseQuery(bld.out.req[1].URL.RawQuery).values

\* C10: the request NewFindPetsRequest builds has, under the key "tags",
\* exactly the elements of params.Tags in their order, and has no key "tags"
\* (no key "limit") when params.Tags (params.Limit) is nil.
C10_OnePairPerElement ==
    (bld.ran /\ bld.call.method = "FindPets" /\ bld.out.req # NIL) =>
        LET p == bld.call.params[1]
        IN  /\ p.Tags # NIL => ValuesOf(BuiltQuery, NameTags) = p.Tags[1]
            /\ p.Tags = NIL => NameTags \notin DOMAIN BuiltQuery
            /\ p.Limit = NIL => NameLimit \notin DOMAIN BuiltQuery

(***************************************************************************)
(* The presence test of the Issue9 wrapper (SpecServer).                   *)
(***************************************************************************)
\* C15: the presence test on "foo" changes nothing: the wrapper of Issue9
\* rejects a request exactly when the binding of "foo" as a required
\* parameter rejects it.
C15_PresenceTestRedundant ==
    (srv.ran /\ srv.op = "Issue9") =>
        (srv.handled = <<>> <=> BindQueryParameter(TRUE, srv.query).err # NoErr)

(***************************************************************************)
(* The body stream in the parsers (SpecParse).                             *)
(***************************************************************************)
\* where in the log of a parser's steps the step is, 0 when it is not there
StepAt(log, step) ==
    IF step \in Range(log) THEN CHOOSE i \in 1..Len(log) : log[i] = step ELSE 0

\* C16: a parser closes the body once, as its last step, on each of its
\* return paths (the read failed, no case matched, the matched case decoded
\* the body, the decoding failed), and when it evaluates its cases the body
\* has been read to its end.
C16_ClosedOnceReadFirst ==
    [][ParseStep =>
          /\ rsp'.Body.closes = rsp.Body.closes + 1
          /\ rsp'.Body.closed
          /\ Cardinality({i \in 1..Len(parse'.log) : parse'.log[i] = "Close"}) = 1
          /\ parse'.log[Len(parse'.log)] = "Close"
          /\ parse'.log[1] = "ReadAll"
          /\ StepAt(parse'.log, "switch") # 0 =>
                /\ StepAt(parse'.log, "ReadAll") < StepAt(parse'.log, "switch")
                /\ rsp'.Body.pos = Len(rsp'.Body.data)
                /\ parse'.read = SubSeq(rsp.Body.data, rsp.Body.pos + 1,
                                        Len(rsp.Body.data))
          /\ StepAt(parse'.log, "switch") = 0 =>
                /\ parse'.ret = NIL
                /\ parse'.err # NoErr]_vars

C16_Witness ==
    /\ parse.calls = 1
    /\ parse.fn = "ParseAddPetResponse"
    /\ parse.log = <<"ReadAll", "switch", "Unmarshal", "Close">>
    /\ parse.err # NoErr
    /\ parse.ret = NIL
    /\ rsp.Body.closes = 1
    /\ rsp.Body.closed
    /\ rsp.Body.pos = Len(rsp.Body.data)

(***************************************************************************)
(* Properties of NewClient (SpecNewClient).                                *)
(***************************************************************************)
\* the option returns an error
Fails(o) ==
    \/ o.opt = "failing"
    \/ o.opt = "WithBaseURL" /\ ~o.baseURL.valid

\* the places of the options of NewClient's call that return an error
Failing == {i \in 1..Len(nc.opts) : Fails(nc.opts[i])}

\* the places of the options named opt
Places(opt) == {i \in 1..Len(nc.opts) : nc.opts[i].opt = opt}

\* the greatest of a set of numbers
Last(S) == CHOOSE i \in S : \A j \in S : j <= i

\* C17: NewClient applies the options in order to a client that has the
\* server argument: of the options for one field the last one decides it; at
\* the first option that returns an error NewClient returns nil and that
\* error, having applied no option after it; and a client it returns has a
\* Doer, http.DefaultClient when the options left none.
C17_OptionsInOrder ==
    nc.ran =>
        IF Failing # {}
        THEN LET f == CHOOSE i \in Failing : \A j \in Failing : i <= j
             IN  /\ nc.out.client = NIL
                 /\ nc.out.err = Apply(nc.opts[f], [Server |-> nc.server,
                                                    Client |-> "nil",
                                                    RequestEditor |-> "nil"]).err
                 /\ nc.out.err # NoErr
                 /\ nc.out.applied = f
        ELSE /\ nc.out.err = NoErr
             /\ nc.out.client # NIL
             /\ nc.out.applied = Len(nc.opts)
             /\ LET c == nc.out.client[1]
                    doer == IF Places("WithHTTPClient") = {} THEN "nil"
                            ELSE nc.opts[Last(Places("WithHTTPClient"))].doer
                IN  /\ c.Client # "nil"
                    /\ c.Client = IF doer = "nil" THEN "http.DefaultClient"
                                  ELSE doer
                    /\ c.RequestEditor =
                          IF Places("WithRequestEditorFn") = {} THEN "nil"
                          ELSE nc.opts[Last(Places("WithRequestEditorFn"))].fn
                    /\ c.Server =
                          IF Places("WithBaseURL") = {} THEN nc.server
                          ELSE URLString(URLParse(WithSlash(
                                  nc.opts[Last(Places("WithBaseURL"))].baseURL)).url)

C17_Witness ==
    /\ nc.ran
    /\ Len(nc.opts) = 2
    /\ nc.opts[1] = Option("WithHTTPClient", "custom", "nil", ZeroServer)
    /\ nc.opts[2] = Option("WithHTTPClient", "nil", "nil", ZeroServer)
    /\ nc.out.client # NIL
    /\ nc.out.client[1].Client = "http.DefaultClient"
    /\ nc.out.client[1].Server = nc.server

(***************************************************************************)
(* Further properties of the parsers and of the Client methods.            *)
(***************************************************************************)
\* C18: ParseAddPetResponse, given the response of a successful AddPet
\* (status 201, a JSON Content-Type, a body holding the created Pet), sets
\* the typed Pet payload and leaves the Error payload JSONDefault unset.
C18_CreatedDecodesAsPet ==
    (/\ parse.calls = 1
     /\ parse.fn = "ParseAddPetResponse"
     /\ rsp.StatusCode = 201
     /\ CT = CTJson
     /\ rsp.Body.data = <<"pet1">>
     /\ ~rsp.Body.broken)
        => /\ parse.err = NoErr
           /\ parse.ret # NIL
           /\ Populated(parse.ret[1]) = {"JSON200"}

\* C19: FindPets and Issue9WithBody, and the builders they start with,
\* return a request, a response or an error for every params argument, the
\* nil pointer included; none of them panics.
C19_NilParamsNoCrash ==
    (bld.ran /\ bld.call.method \in {"FindPets", "Issue9WithBody"}) =>
        /\ ~bld.out.panicked
        /\ cli.pc # "panicked"

\* the path of the operation called, with the styled path parameter in the
\* place of its name, as the server reads it
OperationPath(c) ==
    LET with(prefix, v) ==
            prefix \o Unescape(StyleParam("simple", FALSE, <<>>, v).frag, FALSE).value
    IN  CASE c.method \in {"FindPets", "AddPet", "AddPetWithBody"} -> PathPets
          [] c.method \in {"DeletePet", "FindPetById"} ->
               with(PathPetsId, IntVal(c.id))
          [] c.method = "Issue30" -> with(PathIssue30, StrVal(c.pFallthrough))
          [] c.method = "Issue41" -> with(PathIssue41, ObjVal(c.n1param))
          [] OTHER -> PathIssue9

\* C20: the URL of a built request has the scheme and the host of the
\* server URL and, as its path, the path of the operation; nothing of the
\* server URL's path and query is in it.
C20_PathIsOperationPath ==
    RequestBuilt =>
        LET url == bld.out.req[1].URL
        IN  /\ url.Scheme = bld.call.server.Scheme
            /\ url.Host = bld.call.server.Host
            /\ url.Path = OperationPath(bld.call)
            /\ <<"k">> \notin DOMAIN ParseQuery(url.RawQuery).values

====
